---- MODULE Spec2Model ----
(***************************************************************************)
(* Model of the pervaporation Flux Solver                                  *)
(* (src/pervaporation/pervaporation.py, class Pervaporation).              *)
(*                                                                         *)
(* Floating-point numbers are modelled as fixed-point integers with the    *)
(* IEEE special values kept: a number is a record [k, v] with k one of     *)
(* "fin", "nan", "inf", "ninf".  Fractions (compositions) are counted in   *)
(* units of 1/FS, pressures in 0.1 kPa,  permeance values in whole units,  *)
(* fluxes in (permeance unit * pressure unit).  A magnitude above MaxFloat *)
(* overflows to an infinity, as a float does beyond its largest value.     *)
(***************************************************************************)
EXTENDS Integers, Sequences, FiniteSets, TLC

VARIABLES
    membrane,                   \* Pervaporation.membrane
    mixture,                    \* Pervaporation.mixture
    build,                      \* what the collaborators outside the file do where it is open
    inputs,                     \* the operating point the caller works at
    args,                       \* the arguments of the call being executed
    op,                         \* the public method being executed
    pc,                         \* position inside calculate_partial_fluxes
    first_component_permeance,  \* local of calculate_partial_fluxes
    second_component_permeance, \* local of calculate_partial_fluxes
    permeate_composition,       \* local of calculate_partial_fluxes
    d,                          \* local of calculate_partial_fluxes
    iterations,                 \* completed passes of the while loop (observer)
    estimates,                  \* the estimates permeate_composition has had before (observer)
    permeance_lookups,          \* Membrane.get_permeance calls of this call (observer)
    pressure_evaluations,       \* get_nrtl_partial_pressures calls of this call (observer)
    loop_failure,               \* a pressure evaluation failed inside the loop (observer)
    result,                     \* value handed to the caller
    error,                      \* exception handed to the caller
    returned,                   \* fluxes calculate_partial_fluxes last returned for inputs, without permeances
    process,                    \* the process method being executed and its arguments
    ppc,                        \* position inside the process method
    step,                       \* loop variable of the process method
    trajectory,                 \* the lists the process method builds
    permeance_fits,             \* pervaporation_function_first / _second of the non-ideal methods
    calls,                      \* arguments of the calculate_partial_fluxes calls of this run (observer)
    model                       \* the ProcessModel handed to the caller

vars == <<membrane, mixture, build, inputs, args, op, pc, first_component_permeance,
          second_component_permeance, permeate_composition, d, iterations,
          estimates, permeance_lookups, pressure_evaluations, loop_failure, result, error,
          returned, process, ppc, step, trajectory, permeance_fits, calls, model>>

\* the variables of the process methods
process_vars == <<process, ppc, step, trajectory, permeance_fits, calls, model>>

-----------------------------------------------------------------------------
(* Bounds of the model *)

\* Fractions are counted in units of 1/FS.
FS == 1000
\* Largest finite magnitude; beyond it a value is an infinity.
MaxFloat == 40000
\* The observers of the loop stop counting here (the loop itself goes on).
MaxIterations == 52

\* Optional values: None, or Some(v) holding v
None == <<>>
Some(v) == <<v>>
Val(o) == o[1]

\* a local that is not assigned yet
Unset == [k |-> "unset", v |-> 0]
NoError == "none"

-----------------------------------------------------------------------------
(* Floating-point arithmetic *)

NaN == [k |-> "nan", v |-> 0]
PInf == [k |-> "inf", v |-> 0]
NInf == [k |-> "ninf", v |-> 0]
ZeroDivisionError == [k |-> "ZeroDivisionError", v |-> 0]

Fin(n) ==
    IF n > MaxFloat THEN PInf
    ELSE IF n < -MaxFloat THEN NInf
    ELSE [k |-> "fin", v |-> n]

IsFinite(a) == a.k = "fin"
IsNaN(a) == a.k = "nan"

\* -1, 0, 1 for a non-NaN value
Sign(a) ==
    CASE a.k = "inf" -> 1
      [] a.k = "ninf" -> -1
      [] OTHER -> IF a.v > 0 THEN 1 ELSE IF a.v < 0 THEN -1 ELSE 0

Signed(s) == IF s > 0 THEN PInf ELSE NInf

\* n / m rounded to the nearest integer, m # 0
Round(n, m) ==
    LET nn == IF m < 0 THEN -n ELSE n
        mm == IF m < 0 THEN -m ELSE m
    IN  (2 * nn + mm) \div (2 * mm)

FNeg(a) ==
    CASE a.k = "fin" -> Fin(-a.v)
      [] a.k = "inf" -> NInf
      [] a.k = "ninf" -> PInf
      [] OTHER -> NaN

FAdd(a, b) ==
    IF IsNaN(a) \/ IsNaN(b) THEN NaN
    ELSE IF IsFinite(a) /\ IsFinite(b) THEN Fin(a.v + b.v)
    ELSE IF IsFinite(a) THEN b
    ELSE IF IsFinite(b) THEN a
    ELSE IF a.k = b.k THEN a
    ELSE NaN

FSub(a, b) == FAdd(a, FNeg(b))

\* product of two plain numbers
FMul(a, b) ==
    IF IsNaN(a) \/ IsNaN(b) THEN NaN
    ELSE IF IsFinite(a) /\ IsFinite(b) THEN Fin(a.v * b.v)
    ELSE IF Sign(a) = 0 \/ Sign(b) = 0 THEN NaN
    ELSE Signed(Sign(a) * Sign(b))

\* product of a plain number and a fraction
FMulFrac(a, y) ==
    IF IsFinite(a) /\ IsFinite(y) THEN Fin(Round(a.v * y.v, FS))
    ELSE FMul(a, y)

\* quotient of two plain numbers, as a fraction.  numpy scalars follow IEEE
\* 754 on a zero divisor; Python floats raise ZeroDivisionError.
FDiv(a, b, numpy) ==
    IF IsFinite(b) /\ b.v = 0
    THEN IF ~numpy THEN ZeroDivisionError
         ELSE IF IsNaN(a) \/ Sign(a) = 0 THEN NaN
         ELSE Signed(Sign(a))
    ELSE IF IsNaN(a) \/ IsNaN(b) THEN NaN
    ELSE IF IsFinite(a) /\ IsFinite(b) THEN Fin(Round(a.v * FS, b.v))
    ELSE IF IsFinite(a) THEN Fin(0)
    ELSE IF IsFinite(b) THEN Signed(Sign(a) * Sign(b))
    ELSE NaN

FAbs(a) ==
    CASE a.k = "fin" -> Fin(IF a.v < 0 THEN -a.v ELSE a.v)
      [] a.k = "nan" -> NaN
      [] OTHER -> PInf

\* a > b; false when either is NaN
FGt(a, b) ==
    /\ ~IsNaN(a)
    /\ ~IsNaN(b)
    /\ CASE a.k = "ninf" -> FALSE
         [] b.k = "inf" -> FALSE
         [] a.k = "inf" -> TRUE
         [] b.k = "ninf" -> TRUE
         [] OTHER -> a.v > b.v

\* Python's max(a, b): b only when b > a
PyMax(a, b) == IF FGt(b, a) THEN b ELSE a

One == Fin(FS)

\* precision, a rational number num/den
DefaultPrecision == [num |-> 5, den |-> 100000]

\* d >= precision, d a fraction; false when d is NaN
FGe(a, precision) ==
    CASE a.k = "nan" -> FALSE
      [] a.k = "inf" -> TRUE
      [] a.k = "ninf" -> FALSE
      [] OTHER -> a.v >= (precision.num * FS + precision.den - 1) \div precision.den

-----------------------------------------------------------------------------
(* Collaborators of the Flux Solver: Mixture, Membrane, Permeance, Composition *)
(* and the equilibrium pressure provider.                                      *)

kg_m2_h_kPa == "kg_m2_h_kPa"
kmol_m2_h_kPa == "kmol_m2_h_kPa"

\* temperatures the tables of the collaborators are made for, K
Temperatures == {293, 313, 333}

\* temperatures the equilibrium model is valid for, K
TemperatureRange == 273..373

\* the tabulated temperature a table is read at
Nearest(temperature) ==
    IF temperature < 303 THEN 293 ELSE IF temperature < 323 THEN 313 ELSE 333

\* a binary mixture: saturation pressures in 0.1 kPa, activity parameters in
\* 1/FS, vaporisation heats in 1/FS, specific heats in whole units
Mixtures ==
    { [ first_component |-> [name |-> "H2O", molecular_weight |-> 18,
                             saturation_pressure |-> (293 :> 23 @@ 313 :> 74 @@ 333 :> 200),
                             vaporisation_heat |-> (293 :> 216 @@ 313 :> 180 @@ 333 :> 144),
                             specific_heat |-> (293 :> 72 @@ 313 :> 72 @@ 333 :> 90)],
        second_component |-> [name |-> "EtOH", molecular_weight |-> 46,
                              saturation_pressure |-> (293 :> 59 @@ 313 :> 179 @@ 333 :> 469),
                              vaporisation_heat |-> (293 :> 460 @@ 313 :> 368 @@ 333 :> 276),
                              specific_heat |-> (293 :> 92 @@ 313 :> 138 @@ 333 :> 138)],
        activity |-> <<FS \div 2, FS \div 4>> ] }

\* a membrane stores one permeance per component and temperature, in its own
\* units, and the measurements its activation energies are calculated from
Membranes ==
    { [ name |-> "Pervap", units |-> kg_m2_h_kPa,
        permeance |-> <<(293 :> 2 @@ 313 :> 4 @@ 333 :> 6), (293 :> 1 @@ 313 :> 1 @@ 333 :> 2)>>,
        activation_energy |-> <<166280000, 83140000>> ],
      [ name |-> "Romakon", units |-> kmol_m2_h_kPa,
        permeance |-> <<(293 :> 1 @@ 313 :> 2 @@ 333 :> 3), (293 :> 1 @@ 313 :> 1 @@ 333 :> 1)>>,
        activation_energy |-> <<83140000, 166280000>> ] }

Permeance(value, units) == [value |-> value, units |-> units]

\* Membrane.get_permeance(temperature, component); component is 1 or 2
get_permeance(mem, temperature, component) ==
    Permeance(mem.permeance[component][Nearest(temperature)], mem.units)

Component(mix, component) ==
    IF component = 1 THEN mix.first_component ELSE mix.second_component

\* Permeance.convert(to_units, component): molar units to mass units by the
\* component's molecular weight
convert(permeance, to_units, mix, component) ==
    IF permeance.units = to_units THEN permeance
    ELSE IF to_units = kg_m2_h_kPa
         THEN Permeance(permeance.value * Component(mix, component).molecular_weight, to_units)
         ELSE Permeance(permeance.value \div Component(mix, component).molecular_weight, to_units)

\* Composition.first and Composition.second of a composition with p = c
First(c) == c
Second(c) == FSub(One, c)

\* The equilibrium model is defined for a finite composition in [0, 1] at a
\* temperature of its range.
InRange(temperature, c) ==
    /\ temperature \in TemperatureRange
    /\ IsFinite(c)
    /\ c.v >= 0
    /\ c.v <= FS

\* partial pressure of one component: x * gamma(x) * Psat(T), with
\* gamma = 1 + A * (1 - x)^2
PartialPressure(x, a, psat) ==
    LET gamma == FS + (a * (FS - x) * (FS - x)) \div (FS * FS)
    IN  Round(Round(x * gamma, FS) * psat, FS)

\* get_nrtl_partial_pressures(temperature, mixture, composition).  Outside its
\* range the provider either raises or yields NaN (failure = "raise" / "nan").
get_nrtl_partial_pressures(temperature, mix, c, failure) ==
    IF InRange(temperature, c)
    THEN [raised |-> FALSE, failed |-> FALSE,
          p |-> << Fin(PartialPressure(c.v, mix.activity[1],
                                       mix.first_component.saturation_pressure[Nearest(temperature)])),
                   Fin(PartialPressure(FS - c.v, mix.activity[2],
                                       mix.second_component.saturation_pressure[Nearest(temperature)])) >>]
    ELSE [raised |-> failure = "raise", failed |-> TRUE, p |-> <<NaN, NaN>>]

-----------------------------------------------------------------------------
(* src/pervaporation/pervaporation.py                                        *)

ConfigurationError == "ValueError: Either permeate temperature or permeate pressure could be stated not both"
UndefinedFluxesError == "ValueError: Partial fluxes are not defined in the stated conditions range"
ProviderError == "error raised by get_nrtl_partial_pressures"
ZeroDivision == "ZeroDivisionError: float division by zero"

\* get_permeate_composition_from_fluxes (the p of the Composition built).
\* numpy: the fluxes are numpy scalars.
get_permeate_composition_from_fluxes(fluxes, numpy) ==
    FDiv(fluxes[1], FAdd(fluxes[1], fluxes[2]), numpy)

\* The branch of get_partial_fluxes_from_permeate_composition that gives the
\* permeate-side partial pressures.
PermeateVacuum(call) ==
    call.permeate_temperature = None /\ call.permeate_pressure = None
PermeateByTemperature(call) ==
    call.permeate_temperature # None /\ call.permeate_pressure = None
PermeateByPressure(call) ==
    call.permeate_pressure # None /\ call.permeate_temperature = None

\* as permeate_nrtl_partial_pressures, but an unstated permeate condition is
\* taken as a permeate side at 1 kPa instead of vacuum
permeate_nrtl_partial_pressures_not_vacuum(mix, permeate, call, failure) ==
    LET perm == get_nrtl_partial_pressures(Val(call.permeate_temperature), mix,
                                           permeate, failure)
        out(exc, p, n, failed) ==
            [raised |-> exc, p |-> p, evaluations |-> n, failed |-> failed]
    IN  IF PermeateVacuum(call)
        THEN out(NoError, <<FMulFrac(Fin(10), First(permeate)),
                            FMulFrac(Fin(10), Second(permeate))>>, 0, FALSE)
        ELSE IF PermeateByTemperature(call)
        THEN out(IF perm.raised THEN ProviderError ELSE NoError, perm.p, 1, perm.failed)
        ELSE IF PermeateByPressure(call)
        THEN out(NoError,
                 << FMulFrac(Fin(Val(call.permeate_pressure)), First(permeate)),
                    FMulFrac(Fin(Val(call.permeate_pressure)), Second(permeate)) >>,
                 0, FALSE)
        ELSE out(ConfigurationError, <<NaN, NaN>>, 0, FALSE)

\* get_partial_fluxes_from_permeate_composition, lines 57-73: the permeate-side
\* partial pressures p, the exception raised instead (or NoError), the number
\* of pressure evaluations made and whether one failed.
permeate_nrtl_partial_pressures(mix, permeate, call, failure) ==
    LET perm == get_nrtl_partial_pressures(Val(call.permeate_temperature), mix,
                                           permeate, failure)
        out(exc, p, n, failed) ==
            [raised |-> exc, p |-> p, evaluations |-> n, failed |-> failed]
    IN  IF PermeateVacuum(call)
        THEN out(NoError, <<Fin(0), Fin(0)>>, 0, FALSE)
        ELSE IF PermeateByTemperature(call)
        THEN out(IF perm.raised THEN ProviderError ELSE NoError, perm.p, 1, perm.failed)
        ELSE IF PermeateByPressure(call)
        THEN out(NoError,
                 << FMulFrac(Fin(Val(call.permeate_pressure)), First(permeate)),
                    FMulFrac(Fin(Val(call.permeate_pressure)), Second(permeate)) >>,
                 0, FALSE)
        ELSE out(ConfigurationError, <<NaN, NaN>>, 0, FALSE)

\* Pervaporation.get_partial_fluxes_from_permeate_composition: the exception
\* raised (or NoError), the fluxes returned, the number of pressure evaluations
\* made and whether one of them failed.
get_partial_fluxes_from_permeate_composition(mix, first_permeance, second_permeance, permeate, call, failure) ==
    LET feed == get_nrtl_partial_pressures(call.feed_temperature, mix,
                                           call.composition, failure)
        perm == permeate_nrtl_partial_pressures(mix, permeate, call, failure)
        out(exc, fl, n, failed) ==
            [raised |-> exc, fluxes |-> fl, evaluations |-> n, failed |-> failed]
    IN  IF feed.raised THEN out(ProviderError, <<NaN, NaN>>, 1, TRUE)
        ELSE IF perm.raised # NoError
        THEN out(perm.raised, <<NaN, NaN>>, 1 + perm.evaluations,
                 feed.failed \/ perm.failed)
        ELSE out(NoError,
                 << FMul(Fin(first_permeance.value), FSub(feed.p[1], perm.p[1])),
                    FMul(Fin(second_permeance.value), FSub(feed.p[2], perm.p[2])) >>,
                 1 + perm.evaluations, feed.failed \/ perm.failed)

\* calculate_partial_fluxes, lines 104-114: the permeances the call works with
LookupNeeded(call) ==
    call.second_component_permeance = None \/ call.first_component_permeance = None

\* as WorkingPermeance, but the Membrane's permeance is used in the units it is
\* stored in
WorkingPermeance_unconverted(mem, mix, call, component) ==
    IF LookupNeeded(call)
    THEN get_permeance(mem, call.feed_temperature, component)
    ELSE IF component = 1 THEN Val(call.first_component_permeance)
         ELSE Val(call.second_component_permeance)

WorkingPermeance(mem, mix, call, component) ==
    IF LookupNeeded(call)
    THEN convert(get_permeance(mem, call.feed_temperature, component),
                 kg_m2_h_kPa, mix, component)
    ELSE IF component = 1 THEN Val(call.first_component_permeance)
         ELSE Val(call.second_component_permeance)

\* calculate_partial_fluxes, lines 116-119
initial_fluxes(first_permeance, second_permeance, pressures) ==
    << FMul(Fin(first_permeance.value), pressures[1]),
       FMul(Fin(second_permeance.value), pressures[2]) >>

\* as Change, but the new estimate is compared with the complement of the old one
Change_complement(new, old) ==
    PyMax(FAbs(FSub(First(new), Second(old))), FAbs(FSub(Second(new), First(old))))

\* calculate_partial_fluxes, lines 136-139
Change(new, old) ==
    PyMax(FAbs(FSub(First(new), First(old))), FAbs(FSub(Second(new), Second(old))))

\* the condition of the while loop, line 123
LoopCondition(change, precision) == FGe(change, precision)

\* as PermeateFraction, but of the second component
PermeateFraction_second(x) == FDiv(x[2], FAdd(x[1], x[2]), TRUE)

\* calculate_permeate_composition, line 184 (numpy.sum makes the quotient a
\* numpy one)
PermeateFraction(x) == FDiv(x[1], FAdd(x[1], x[2]), TRUE)

-----------------------------------------------------------------------------
(* The caller's choices *)

FeedTemperatures == {313, 333}
Compositions == {Fin(0), Fin(FS \div 10), Fin(FS \div 2), Fin(FS)}
Precisions == {DefaultPrecision, [num |-> 1, den |-> 100]}
\* <<permeate_temperature, permeate_pressure>>; 100 K is outside the range of
\* the equilibrium model
PermeateSettings ==
    { <<None, None>>, <<Some(293), None>>, <<Some(313), None>>, <<Some(100), None>>,
      <<None, Some(0)>>, <<None, Some(74)>>, <<None, Some(147)>>,
      <<Some(293), Some(74)>> }
\* <<first_component_permeance, second_component_permeance>>
PermeanceArguments ==
    { <<None, None>>,
      <<Some(Permeance(4, kg_m2_h_kPa)), Some(Permeance(1, kg_m2_h_kPa))>>,
      <<Some(Permeance(1, kg_m2_h_kPa)), Some(Permeance(2, kg_m2_h_kPa))>>,
      <<Some(Permeance(3, kg_m2_h_kPa)), None>> }
Builds == [numpy : BOOLEAN, failure : {"raise", "nan"}]

Inputs ==
    { [feed_temperature |-> t, composition |-> c, precision |-> p,
       permeate_temperature |-> s[1], permeate_pressure |-> s[2]] :
         t \in FeedTemperatures, c \in Compositions, p \in Precisions,
         s \in PermeateSettings }

Arguments(in, permeances) ==
    [feed_temperature |-> in.feed_temperature, composition |-> in.composition,
     precision |-> in.precision, permeate_temperature |-> in.permeate_temperature,
     permeate_pressure |-> in.permeate_pressure,
     first_component_permeance |-> permeances[1],
     second_component_permeance |-> permeances[2]]

Count(n) == IF n >= MaxIterations THEN MaxIterations ELSE n

-----------------------------------------------------------------------------
(* The state machine *)

\* no process method is being executed
NoProcess ==
    /\ process = None
    /\ ppc = "idle"
    /\ step = 0
    /\ trajectory = None
    /\ permeance_fits = None
    /\ calls = <<>>
    /\ model = None

Init ==
    /\ membrane \in Membranes
    /\ mixture \in Mixtures
    /\ build \in Builds
    /\ inputs \in Inputs
    /\ args = Arguments(inputs, <<None, None>>)
    /\ op = "none"
    /\ pc = "idle"
    /\ first_component_permeance = None
    /\ second_component_permeance = None
    /\ permeate_composition = Unset
    /\ d = Unset
    /\ iterations = 0
    /\ estimates = {}
    /\ permeance_lookups = 0
    /\ pressure_evaluations = 0
    /\ loop_failure = FALSE
    /\ result = None
    /\ error = NoError
    /\ returned = None
    /\ NoProcess

Enter(method, permeances) ==
    /\ pc = "idle"
    /\ op' = method
    /\ args' = Arguments(inputs, permeances)
    /\ pc' = "permeances"
    /\ first_component_permeance' = permeances[1]
    /\ second_component_permeance' = permeances[2]
    /\ permeate_composition' = Unset
    /\ d' = Unset
    /\ iterations' = 0
    /\ estimates' = {}
    /\ permeance_lookups' = 0
    /\ pressure_evaluations' = 0
    /\ loop_failure' = FALSE
    /\ result' = None
    /\ error' = NoError
    /\ UNCHANGED <<membrane, mixture, build, inputs, returned>>
    /\ UNCHANGED process_vars

\* a caller calls calculate_partial_fluxes (lines 82-91)
Call_calculate_partial_fluxes ==
    \E permeances \in PermeanceArguments :
        Enter("calculate_partial_fluxes", permeances)

\* a caller calls calculate_permeate_composition, which calls
\* calculate_partial_fluxes without permeances (lines 158-183)
Call_calculate_permeate_composition ==
    Enter("calculate_permeate_composition", <<None, None>>)

\* as Permeances, but a permeance looked up is converted in place: the Membrane
\* keeps the converted value
Permeances_converted_in_place ==
    /\ pc = "permeances"
    /\ first_component_permeance' = Some(WorkingPermeance(membrane, mixture, args, 1))
    /\ second_component_permeance' = Some(WorkingPermeance(membrane, mixture, args, 2))
    /\ permeance_lookups' = IF LookupNeeded(args) THEN 2 ELSE 0
    /\ pc' = "seed"
    /\ membrane' =
           IF LookupNeeded(args)
           THEN [membrane EXCEPT
                    !.units = kg_m2_h_kPa,
                    !.permeance[1][Nearest(args.feed_temperature)] =
                        WorkingPermeance(membrane, mixture, args, 1).value,
                    !.permeance[2][Nearest(args.feed_temperature)] =
                        WorkingPermeance(membrane, mixture, args, 2).value]
           ELSE membrane
    /\ UNCHANGED <<mixture, build, inputs, args, op, permeate_composition,
                   d, iterations, estimates, pressure_evaluations, loop_failure,
                   result, error, returned>>
    /\ UNCHANGED process_vars

\* lines 104-114
Permeances ==
    /\ pc = "permeances"
    /\ first_component_permeance' = Some(WorkingPermeance(membrane, mixture, args, 1))
    /\ second_component_permeance' = Some(WorkingPermeance(membrane, mixture, args, 2))
    /\ permeance_lookups' = IF LookupNeeded(args) THEN 2 ELSE 0
    /\ pc' = "seed"
    /\ UNCHANGED <<membrane, mixture, build, inputs, args, op, permeate_composition,
                   d, iterations, estimates, pressure_evaluations, loop_failure,
                   result, error, returned>>
    /\ UNCHANGED process_vars

\* lines 116-121
Seed ==
    /\ pc = "seed"
    /\ \E feed \in {get_nrtl_partial_pressures(args.feed_temperature, mixture,
                                                args.composition, build.failure)} :
           /\ pressure_evaluations' = Count(pressure_evaluations + 1)
           /\ IF feed.raised
              THEN /\ pc' = "raised"
                   /\ error' = ProviderError
                   /\ UNCHANGED <<permeate_composition, d>>
              ELSE /\ pc' = "loop"
                   /\ \E fluxes \in {initial_fluxes(Val(first_component_permeance),
                                                    Val(second_component_permeance),
                                                    feed.p)} :
                          permeate_composition' =
                              get_permeate_composition_from_fluxes(fluxes, TRUE)
                   /\ d' = One
                   /\ UNCHANGED error
    /\ UNCHANGED <<membrane, mixture, build, inputs, args, op,
                   first_component_permeance, second_component_permeance,
                   iterations, estimates, permeance_lookups, loop_failure, result,
                   returned>>
    /\ UNCHANGED process_vars

\* one pass of the while loop, lines 123-145.  "except ()" names no exception
\* class, so whatever the body raises leaves the method as it is.
Iterate ==
    /\ pc = "loop"
    /\ LoopCondition(d, args.precision)
    /\ \E call \in {get_partial_fluxes_from_permeate_composition(
                        mixture, Val(first_component_permeance),
                        Val(second_component_permeance), permeate_composition,
                        args, build.failure)} :
       \E permeate_composition_new \in
              {get_permeate_composition_from_fluxes(call.fluxes, build.numpy)} :
           /\ pressure_evaluations' = Count(pressure_evaluations + call.evaluations)
           /\ loop_failure' = (loop_failure \/ call.failed)
           /\ IF call.raised # NoError
              THEN /\ pc' = "raised"
                   /\ error' = call.raised
                   /\ UNCHANGED <<permeate_composition, d, iterations, estimates>>
              ELSE IF permeate_composition_new = ZeroDivisionError
              THEN /\ pc' = "raised"
                   /\ error' = ZeroDivision
                   /\ UNCHANGED <<permeate_composition, d, iterations, estimates>>
              ELSE /\ d' = Change(permeate_composition_new, permeate_composition)
                   /\ permeate_composition' = permeate_composition_new
                   /\ iterations' = Count(iterations + 1)
                   /\ estimates' = estimates \cup {permeate_composition}
                   /\ UNCHANGED <<pc, error>>
    /\ UNCHANGED <<membrane, mixture, build, inputs, args, op,
                   first_component_permeance, second_component_permeance,
                   permeance_lookups, result, returned>>
    /\ UNCHANGED process_vars

\* the loop is left, lines 123 and 148-156
ReturnFluxes ==
    /\ pc = "loop"
    /\ ~LoopCondition(d, args.precision)
    /\ \E call \in {get_partial_fluxes_from_permeate_composition(
                        mixture, Val(first_component_permeance),
                        Val(second_component_permeance), permeate_composition,
                        args, build.failure)} :
           /\ pressure_evaluations' = Count(pressure_evaluations + call.evaluations)
           /\ IF call.raised # NoError
              THEN /\ pc' = "raised"
                   /\ error' = call.raised
                   /\ UNCHANGED result
              ELSE /\ pc' = IF op = "calculate_partial_fluxes"
                            THEN "returned" ELSE "composition"
                   /\ result' = call.fluxes
                   /\ UNCHANGED error
    /\ UNCHANGED <<membrane, mixture, build, inputs, args, op,
                   first_component_permeance, second_component_permeance,
                   permeate_composition, d, iterations, estimates,
                   permeance_lookups, loop_failure, returned>>
    /\ UNCHANGED process_vars

\* calculate_permeate_composition, line 184
ReturnComposition ==
    /\ pc = "composition"
    /\ result' = <<PermeateFraction(result)>>
    /\ pc' = "returned"
    /\ UNCHANGED <<membrane, mixture, build, inputs, args, op,
                   first_component_permeance, second_component_permeance,
                   permeate_composition, d, iterations, estimates,
                   permeance_lookups, pressure_evaluations, loop_failure, error,
                   returned>>
    /\ UNCHANGED process_vars

\* the caller takes the value or the exception
Leave ==
    /\ pc \in {"returned", "raised"}
    /\ pc' = "idle"
    /\ returned' = IF /\ pc = "returned"
                      /\ op = "calculate_partial_fluxes"
                      /\ args.first_component_permeance = None
                      /\ args.second_component_permeance = None
                   THEN result ELSE returned
    /\ UNCHANGED <<membrane, mixture, build, inputs, args, op,
                   first_component_permeance, second_component_permeance,
                   permeate_composition, d, iterations, estimates,
                   permeance_lookups, pressure_evaluations, loop_failure, result,
                   error>>
    /\ UNCHANGED process_vars

Next ==
    \/ Call_calculate_partial_fluxes
    \/ Call_calculate_permeate_composition
    \/ Permeances
    \/ Seed
    \/ Iterate
    \/ ReturnFluxes
    \/ ReturnComposition
    \/ Leave

Spec == Init /\ [][Next]_vars

-----------------------------------------------------------------------------
(* Collaborators of the process methods: Conditions, Composition, Component, *)
(* Membrane, TemperatureProgram, DiffusionCurveSet, Measurements,            *)
(* find_best_fit and the function it fits.                                   *)

\* utils.R, in 1/1000
R == 8314

\* quotient of two plain numbers, a plain number
FQuot(a, b, numpy) ==
    IF IsFinite(b) /\ b.v = 0
    THEN IF ~numpy THEN ZeroDivisionError
         ELSE IF IsNaN(a) \/ Sign(a) = 0 THEN NaN
         ELSE Signed(Sign(a))
    ELSE IF IsNaN(a) \/ IsNaN(b) THEN NaN
    ELSE IF IsFinite(a) /\ IsFinite(b) THEN Fin(Round(a.v, b.v))
    ELSE IF IsFinite(a) THEN Fin(0)
    ELSE IF IsFinite(b) THEN Signed(Sign(a) * Sign(b))
    ELSE NaN

\* a temperature as the collaborators' tables take it: one that is not a finite
\* number is in no table
Kelvin(t) == IF IsFinite(t) THEN t.v ELSE 0


\* Composition.to_weight(mixture): the weight fraction of the first component
to_weight(c, mix) ==
    IF c.type = "weight" THEN c.p
    ELSE LET m1 == c.p.v * mix.first_component.molecular_weight
             m2 == (FS - c.p.v) * mix.second_component.molecular_weight
         IN  Fin(Round(m1 * FS, m1 + m2))

\* Component.get_vaporisation_heat(temperature), in 1/FS
get_vaporisation_heat(component, temperature) ==
    component.vaporisation_heat[Nearest(temperature)]

\* Component.get_specific_heat(temperature)
get_specific_heat(component, temperature) ==
    component.specific_heat[Nearest(temperature)]

\* Component.get_cooling_heat(t1, t2): the mean specific heat per mass between
\* the two temperatures, in 1/FS
get_cooling_heat(component, t1, t2) ==
    Fin(Round(component.specific_heat[Nearest(t1)] + component.specific_heat[Nearest(t2)],
              2 * component.molecular_weight))

\* Membrane.calculate_activation_energy(component); component is 1 or 2
calculate_activation_energy(mem, component) == mem.activation_energy[component]

\* TemperatureProgram: the feed is heated from one temperature to another at
\* a given time
TemperaturePrograms == { [before |-> 313, at |-> 2, after |-> 333] }

\* TemperatureProgram.program(time)
program(temperature_program, time) ==
    IF time >= temperature_program.at THEN temperature_program.after
    ELSE temperature_program.before

\* DiffusionCurve: permeance of each component at feed_temperature, as a level
\* at composition 0 and a slope over the composition
DiffusionCurve(temperature, first, second) ==
    [feed_temperature |-> temperature, permeance |-> <<first, second>>]

\* DiffusionCurveSet.diffusion_curves
DiffusionCurveSets ==
    { << DiffusionCurve(313, [level |-> 3, slope |-> 4], [level |-> 1, slope |-> 2]) >>,
      << DiffusionCurve(313, [level |-> 3, slope |-> 4], [level |-> 1, slope |-> 2]),
         DiffusionCurve(333, [level |-> 5, slope |-> 4], [level |-> 2, slope |-> 2]) >> }
SingleCurve == CHOOSE curves \in DiffusionCurveSets : Len(curves) = 1
TwoCurves == CHOOSE curves \in DiffusionCurveSets : Len(curves) = 2

\* Measurements.from_diffusion_curves_first / _second (component_index 0 / 1)
from_diffusion_curves(diffusion_curves, component_index) ==
    [ i \in 1..Len(diffusion_curves) |->
        [temperature |-> diffusion_curves[i].feed_temperature,
         level |-> diffusion_curves[i].permeance[component_index + 1].level,
         slope |-> diffusion_curves[i].permeance[component_index + 1].slope] ]

\* find_best_fit(data, n, m, include_zero, component_index): the fitted
\* function, with coefficient lists a (composition part) and b (temperature
\* part); m = None lets the fit choose the temperature order
find_best_fit(data, n, m, include_zero, component_index) ==
    LET order == IF m = None THEN (IF Len(data) > 1 THEN 1 ELSE 0) ELSE Val(m)
        b0 == (IF order = 0 THEN 1252 ELSE 20000) \div (component_index + 1)
        a1 == data[1].slope + (IF include_zero THEN 1 ELSE 0)
        a0 == data[1].level + Round(b0, data[1].temperature)
    IN  [a |-> <<a0, a1>>, b |-> <<b0>>, n |-> n, m |-> m,
         include_zero |-> include_zero, component_index |-> component_index]

\* the fitted function called with (composition fraction, temperature)
pervaporation_function(fit, x, temperature) ==
    IF ~IsFinite(x) \/ temperature <= 0 THEN NaN
    ELSE Fin(fit.a[1] + Round(fit.a[2] * x.v, FS) - Round(fit.b[1], temperature))

\* PervaporationFunction.derivative_composition, per unit of composition
derivative_composition(fit, x, temperature) ==
    IF ~IsFinite(x) \/ temperature <= 0 THEN NaN ELSE Fin(fit.a[2])

\* PervaporationFunction.derivative_temperature, per K, in 1/FS
derivative_temperature(fit, x, temperature) ==
    IF ~IsFinite(x) \/ temperature <= 0 THEN NaN
    ELSE Fin(Round(fit.b[1] * FS, temperature * temperature))

\* Permeance(value=...) of a computed value; a value that is not a finite
\* number makes every flux computed with it nan
PermeanceOf(value) ==
    IF IsFinite(value) THEN Permeance(value.v, kg_m2_h_kPa)
    ELSE Permeance(0, "not a finite number")

-----------------------------------------------------------------------------
(* The process methods of src/pervaporation/pervaporation.py                 *)

ideal_isothermal_process == "ideal_isothermal_process"
ideal_non_isothermal_process == "ideal_non_isothermal_process"
non_ideal_isothermal_process == "non_ideal_isothermal_process"
non_ideal_non_isothermal_process == "non_ideal_non_isothermal_process"

Isothermal(method) ==
    method \in {ideal_isothermal_process, non_ideal_isothermal_process}
Ideal(method) ==
    method \in {ideal_isothermal_process, ideal_non_isothermal_process}

DomainError == "error raised by a lookup outside its table"

\* time, lines 271-273
time_list(number_of_steps, delta_hours) ==
    [ i \in 1..number_of_steps |-> delta_hours * (i - 1) ]

\* heat / molecular_weight * 1000, heat in 1/FS
heat_per_mass(heat, molecular_weight) ==
    Fin(Round(heat * 1000, molecular_weight * FS))

\* as evaporation_heat, but each component's heat is divided by its own
\* molecular weight in every method
evaporation_heat_own_weight(mix, method, temperature) ==
    << heat_per_mass(get_vaporisation_heat(mix.first_component, temperature),
                     mix.first_component.molecular_weight),
       heat_per_mass(get_vaporisation_heat(mix.second_component, temperature),
                     mix.second_component.molecular_weight) >>

\* evaporation_heat_1 and evaporation_heat_2: lines 299-312 and 756-769 (the
\* isothermal methods divide both by the first component's molecular weight),
\* lines 458-471 and 1052-1065 (the non-isothermal methods)
evaporation_heat(mix, method, temperature) ==
    << heat_per_mass(get_vaporisation_heat(mix.first_component, temperature),
                     mix.first_component.molecular_weight),
       heat_per_mass(get_vaporisation_heat(mix.second_component, temperature),
                     IF Isothermal(method)
                     THEN mix.first_component.molecular_weight
                     ELSE mix.second_component.molecular_weight) >>

\* as condensation_heat, but each component's own vaporisation heat and
\* molecular weight are used in every method
condensation_heat_own_component(mix, method, permeate_temperature) ==
    << heat_per_mass(get_vaporisation_heat(mix.first_component, permeate_temperature),
                     mix.first_component.molecular_weight),
       heat_per_mass(get_vaporisation_heat(mix.second_component, permeate_temperature),
                     mix.second_component.molecular_weight) >>

\* condensation_heat_1 and condensation_heat_2: lines 320-333 and 777-790 (the
\* isothermal methods take both from the first component), lines 522-535 and
\* 1105-1118
condensation_heat(mix, method, permeate_temperature) ==
    << heat_per_mass(get_vaporisation_heat(mix.first_component, permeate_temperature),
                     mix.first_component.molecular_weight),
       IF Isothermal(method)
       THEN heat_per_mass(get_vaporisation_heat(mix.first_component, permeate_temperature),
                          mix.first_component.molecular_weight)
       ELSE heat_per_mass(get_vaporisation_heat(mix.second_component, permeate_temperature),
                          mix.second_component.molecular_weight) >>

\* cooling_heat_1, cooling_heat_2 (lines 334-339, 791-796) and specific_heat_1,
\* specific_heat_2 (lines 537-542, 1120-1125)
cooling_heat(mix, method, feed_temperature, permeate_temperature) ==
    IF Isothermal(method)
    THEN << get_cooling_heat(mix.first_component, permeate_temperature, feed_temperature),
            get_cooling_heat(mix.second_component, permeate_temperature, feed_temperature) >>
    ELSE << get_cooling_heat(mix.first_component, feed_temperature, permeate_temperature),
            get_cooling_heat(mix.second_component, feed_temperature, permeate_temperature) >>

\* d_mass_1, d_mass_2: lines 361-362, 516-517, 819-820, 1099-1100
d_mass(flux, conditions, delta_hours) ==
    FMul(FMul(flux, Fin(conditions.membrane_area)), Fin(delta_hours))

\* lines 364-366, 551-553, 822-824, 1134-1136
feed_evaporation_heat(heat, d_mass_1, d_mass_2) ==
    FAdd(FMul(heat[1], d_mass_1), FMul(heat[2], d_mass_2))

\* lines 370-378, 544-549, 828-836, 1127-1132
permeate_condensation_heat(condensation, cooling, d_mass_1, d_mass_2, feed_temperature, permeate_temperature) ==
    FAdd(FAdd(FMul(condensation[1], d_mass_1), FMul(condensation[2], d_mass_2)),
         FMul(FAdd(FMulFrac(d_mass_1, cooling[1]), FMulFrac(d_mass_2, cooling[2])),
              FSub(feed_temperature, Fin(permeate_temperature))))

\* as next_feed_mass, but only the first component leaves the feed
next_feed_mass_first_only(feed_mass, d_mass_1, d_mass_2) ==
    FSub(feed_mass, d_mass_1)

\* lines 380, 555, 838, 1138
next_feed_mass(feed_mass, d_mass_1, d_mass_2) ==
    FSub(FSub(feed_mass, d_mass_1), d_mass_2)

\* lines 382-388, 557-563, 840-846, 1140-1146
next_feed_composition(feed_composition, feed_mass, new_feed_mass, d_mass_1, numpy) ==
    FDiv(FSub(FMulFrac(feed_mass, feed_composition), d_mass_1), new_feed_mass, numpy)

\* lines 354-359, 509-514, 812-817, 1092-1097
step_permeate_composition(fluxes, numpy) ==
    FDiv(fluxes[1], FAdd(fluxes[1], fluxes[2]), numpy)

\* heat_capacity_1, heat_capacity_2 and feed_heat_capacity: lines 473-484 and
\* 1067-1078
feed_heat_capacity(mix, feed_composition, temperature) ==
    LET heat_capacity_1 == Fin(Round(get_specific_heat(mix.first_component, temperature),
                                     mix.first_component.molecular_weight))
        heat_capacity_2 == Fin(Round(get_specific_heat(mix.second_component, temperature),
                                     mix.second_component.molecular_weight))
    IN  FAdd(FMulFrac(heat_capacity_1, First(feed_composition)),
             FMulFrac(heat_capacity_2, Second(feed_composition)))

\* as self_cooling, but the heat is divided by the heat capacity alone and not
\* by the heat capacity of the whole feed mass
self_cooling_per_unit_mass(heat, heat_capacity, feed_mass, numpy) ==
    FQuot(heat, heat_capacity, numpy)

\* the temperature the feed loses in a step without a temperature program:
\* lines 569-570 and 1152-1153
self_cooling(heat, heat_capacity, feed_mass, numpy) ==
    FQuot(heat, FMul(heat_capacity, feed_mass), numpy)

\* the value of a Permeance of the trajectory
PermeanceValue(permeance) ==
    IF permeance.units \in {kg_m2_h_kPa, kmol_m2_h_kPa} THEN Fin(permeance.value)
    ELSE NaN

\* non_ideal_isothermal_process, lines 847-872: the permeance of one component
\* for the next step
next_permeance_isothermal(fit, permeance, composition, new_composition, temperature) ==
    PermeanceOf(FAdd(PermeanceValue(permeance),
                     FMulFrac(derivative_composition(fit, First(composition), temperature),
                              FSub(First(new_composition), First(composition)))))

\* non_ideal_non_isothermal_process, lines 1161-1196
next_permeance_non_isothermal(fit, composition, new_composition, temperature, new_temperature) ==
    PermeanceOf(
        FAdd(FAdd(pervaporation_function(fit, First(composition), Kelvin(temperature)),
                  FMulFrac(derivative_composition(fit, First(composition), Kelvin(temperature)),
                           FSub(First(new_composition), First(composition)))),
             FMulFrac(FSub(new_temperature, temperature),
                      derivative_temperature(fit, First(composition), Kelvin(temperature)))))

\* as activation_energy_correction, but b[0] is replaced before a[0] is
\* computed from it
activation_energy_correction_b_first(fit, activation_energy, temperature) ==
    [fit EXCEPT !.b = << Round(activation_energy, R) >>,
                !.a = << fit.a[1] + Round(Round(activation_energy, R), temperature)
                             + Round(activation_energy, R * temperature),
                         fit.a[2] >>]

\* lines 704-717 and 998-1011: a[0] and then b[0] of a single-curve fit
activation_energy_correction(fit, activation_energy, temperature) ==
    [fit EXCEPT !.a = << fit.a[1] + Round(fit.b[1], temperature)
                             + Round(activation_energy, R * temperature),
                         fit.a[2] >>,
                !.b = << Round(activation_energy, R) >>]

\* lines 672-733 and 966-1027: pervaporation_function_first and
\* pervaporation_function_second
pervaporation_functions(mem, call) ==
    LET curves == call.diffusion_curves
        measurements_first == from_diffusion_curves(curves, 0)
        measurements_second == from_diffusion_curves(curves, 1)
        pervaporation_function_temperature == curves[1].feed_temperature
    IN  IF Len(curves) = 1
        THEN << activation_energy_correction(
                    find_best_fit(measurements_first, call.n_first, Some(0), FALSE, 0),
                    calculate_activation_energy(mem, 1),
                    pervaporation_function_temperature),
                activation_energy_correction(
                    find_best_fit(measurements_second, call.n_second, Some(0), FALSE, 1),
                    calculate_activation_energy(mem, 2),
                    pervaporation_function_temperature) >>
        ELSE << find_best_fit(measurements_first, call.n_first, call.m_first,
                              call.include_zero, 0),
                find_best_fit(measurements_second, call.n_second, call.m_second,
                              call.include_zero, 1) >>

\* lines 735-754 and 1029-1048: the permeances of the first step
initial_permeances(fits, call, composition) ==
    IF call.initial_permeances = None
    THEN << PermeanceOf(pervaporation_function(fits[1], First(composition),
                                               call.conditions.initial_feed_temperature)),
            PermeanceOf(pervaporation_function(fits[2], First(composition),
                                               call.conditions.initial_feed_temperature)) >>
    ELSE Val(call.initial_permeances)

\* lines 277-288: the permeances of ideal_isothermal_process
ideal_permeances(mem, call) ==
    << get_permeance(mem, call.conditions.initial_feed_temperature, 1),
       get_permeance(mem, call.conditions.initial_feed_temperature, 2) >>

\* the lists a process method has before its loop: lines 271-297, 433-454,
\* 658-754, 952-1048
initial_trajectory(mem, mix, call) ==
    LET composition == to_weight(call.conditions.initial_feed_composition, mix)
    IN  [time |-> time_list(call.number_of_steps, call.delta_hours),
         partial_fluxes |-> <<>>,
         permeances |->
             IF call.method = ideal_isothermal_process
             THEN [i \in 1..call.number_of_steps |-> ideal_permeances(mem, call)]
             ELSE IF call.method = ideal_non_isothermal_process THEN <<>>
             ELSE << initial_permeances(pervaporation_functions(mem, call), call,
                                        composition) >>,
         permeate_composition |-> <<>>,
         feed_composition |-> << composition >>,
         feed_mass |-> << Fin(call.conditions.initial_feed_amount) >>,
         feed_temperature |->
             IF Isothermal(call.method) THEN <<>>
             ELSE << Fin(call.conditions.initial_feed_temperature) >>,
         feed_evaporation_heat |-> <<>>,
         permeate_condensation_heat |-> <<>>]

\* as ProcessModel, but the isothermal methods list the feed temperature of
\* the final state too
ProcessModel_final_temperature(mix, mem, call, lists) ==
    [mixture |-> mix,
     membrane_name |-> mem.name,
     feed_temperature |->
         IF Isothermal(call.method)
         THEN [i \in 1..(call.number_of_steps + 1) |-> Fin(call.conditions.initial_feed_temperature)]
         ELSE lists.feed_temperature,
     feed_composition |-> lists.feed_composition,
     permeate_composition |-> lists.permeate_composition,
     permeate_temperature |->
         [i \in 1..call.number_of_steps |-> call.conditions.permeate_temperature],
     permeate_pressure |->
         [i \in 1..call.number_of_steps |-> call.conditions.permeate_pressure],
     feed_mass |-> lists.feed_mass,
     partial_fluxes |-> lists.partial_fluxes,
     permeances |-> lists.permeances,
     time |-> lists.time,
     feed_evaporation_heat |-> lists.feed_evaporation_heat,
     permeate_condensation_heat |-> lists.permeate_condensation_heat,
     initial_conditions |-> call.conditions]

\* the ProcessModel a process method returns: lines 390-415, 578-603, 874-903,
\* 1198-1227
ProcessModel(mix, mem, call, lists) ==
    [mixture |-> mix,
     membrane_name |-> mem.name,
     feed_temperature |->
         IF Isothermal(call.method)
         THEN [i \in 1..call.number_of_steps |-> Fin(call.conditions.initial_feed_temperature)]
         ELSE lists.feed_temperature,
     feed_composition |-> lists.feed_composition,
     permeate_composition |-> lists.permeate_composition,
     permeate_temperature |->
         [i \in 1..call.number_of_steps |-> call.conditions.permeate_temperature],
     permeate_pressure |->
         [i \in 1..call.number_of_steps |-> call.conditions.permeate_pressure],
     feed_mass |-> lists.feed_mass,
     partial_fluxes |-> lists.partial_fluxes,
     permeances |-> lists.permeances,
     time |-> lists.time,
     feed_evaporation_heat |-> lists.feed_evaporation_heat,
     permeate_condensation_heat |-> lists.permeate_condensation_heat,
     initial_conditions |-> call.conditions]

-----------------------------------------------------------------------------
(* The caller's choices for the process methods *)

Methods ==
    { ideal_isothermal_process, ideal_non_isothermal_process,
      non_ideal_isothermal_process, non_ideal_non_isothermal_process }
\* <<number_of_steps, delta_hours>>
StepSettings == { <<1, 1>>, <<3, 1>>, <<3, 2>> }
FeedAmounts == {500, 3000}
FeedCompositions ==
    { [p |-> Fin(FS \div 2), type |-> "weight"], [p |-> Fin(FS \div 10), type |-> "molar"] }
\* <<permeate_temperature, permeate_pressure>>
ProcessPermeateSettings == { <<None, None>>, <<Some(293), None>>, <<None, Some(147)>> }

Conditions ==
    { [membrane_area |-> 1, initial_feed_temperature |-> t, initial_feed_amount |-> m,
       initial_feed_composition |-> c, permeate_temperature |-> s[1],
       permeate_pressure |-> s[2], temperature_program |-> tp] :
         t \in FeedTemperatures, m \in FeedAmounts, c \in FeedCompositions,
         s \in ProcessPermeateSettings,
         tp \in {None} \cup { Some(q) : q \in TemperaturePrograms } }

\* <<diffusion_curves, initial_permeances, m_first and m_second, include_zero>>
NonIdealArguments ==
    { <<SingleCurve, None, None, TRUE>>,
      <<SingleCurve, Some(<<Permeance(6, kg_m2_h_kPa), Permeance(2, kg_m2_h_kPa)>>), Some(1), FALSE>>,
      <<TwoCurves, None, None, TRUE>>,
      <<TwoCurves, None, Some(1), FALSE>> }

ProcessCall(method, number_of_steps, delta_hours, conditions, non_ideal) ==
    [method |-> method, number_of_steps |-> number_of_steps,
     delta_hours |-> delta_hours, conditions |-> conditions,
     precision |-> [num |-> 1, den |-> 100],
     diffusion_curves |-> non_ideal[1], initial_permeances |-> non_ideal[2],
     n_first |-> None, m_first |-> non_ideal[3],
     n_second |-> None, m_second |-> non_ideal[3], include_zero |-> non_ideal[4]]

\* the calls of a process method; the isothermal methods do not read the
\* temperature program, the ideal methods take no diffusion curves
ProcessCalls(method) ==
    { ProcessCall(method, st[1], st[2], c, a) :
        st \in StepSettings,
        c \in { q \in Conditions : Isothermal(method) => q.temperature_program = None },
        a \in IF Ideal(method) THEN { <<None, None, None, TRUE>> } ELSE NonIdealArguments }

-----------------------------------------------------------------------------
(* The state machine of the process methods *)

ProcessInit ==
    /\ membrane \in Membranes
    /\ mixture \in Mixtures
    /\ build \in Builds
    /\ inputs = [feed_temperature |-> 313, composition |-> Fin(FS \div 2),
                 precision |-> [num |-> 1, den |-> 100],
                 permeate_temperature |-> None, permeate_pressure |-> None]
    /\ args = Arguments(inputs, <<None, None>>)
    /\ op = "none"
    /\ pc = "idle"
    /\ first_component_permeance = None
    /\ second_component_permeance = None
    /\ permeate_composition = Unset
    /\ d = Unset
    /\ iterations = 0
    /\ estimates = {}
    /\ permeance_lookups = 0
    /\ pressure_evaluations = 0
    /\ loop_failure = FALSE
    /\ result = None
    /\ error = NoError
    /\ returned = None
    /\ NoProcess

\* the variables of the Flux Solver
solver_vars ==
    <<args, op, pc, first_component_permeance, second_component_permeance,
      permeate_composition, d, iterations, estimates, permeance_lookups,
      pressure_evaluations, loop_failure, result, error, returned>>

\* a caller calls a process method; the method runs up to its loop
CallProcess(method) ==
    /\ ppc = "idle"
    /\ pc = "idle"
    /\ \E call \in ProcessCalls(method) :
           /\ process' = Some(call)
           /\ trajectory' = Some(initial_trajectory(membrane, mixture, call))
           /\ permeance_fits' = IF Ideal(method) THEN None
                                ELSE Some(pervaporation_functions(membrane, call))
    /\ ppc' = "step"
    /\ step' = 0
    /\ calls' = <<>>
    /\ model' = None
    /\ UNCHANGED <<membrane, mixture, build, inputs>>
    /\ UNCHANGED solver_vars

Call_ideal_isothermal_process == CallProcess(ideal_isothermal_process)
Call_ideal_non_isothermal_process == CallProcess(ideal_non_isothermal_process)
Call_non_ideal_isothermal_process == CallProcess(non_ideal_isothermal_process)
Call_non_ideal_non_isothermal_process == CallProcess(non_ideal_non_isothermal_process)

\* as StepTemperature, but the isothermal methods work at the permeate
\* temperature where one is stated
StepTemperature_permeate(call, lists, t) ==
    IF Isothermal(call.method)
    THEN IF call.conditions.permeate_temperature = None
         THEN Fin(call.conditions.initial_feed_temperature)
         ELSE Fin(Val(call.conditions.permeate_temperature))
    ELSE lists.feed_temperature[t + 1]

\* the feed temperature of the step being executed
StepTemperature(call, lists, t) ==
    IF Isothermal(call.method) THEN Fin(call.conditions.initial_feed_temperature)
    ELSE lists.feed_temperature[t + 1]

\* as StepPermeances, but ideal_non_isothermal_process queries the Membrane at
\* the initial feed temperature in every pass
StepPermeances_initial_temperature(mem, call, lists, t) ==
    IF call.method = ideal_non_isothermal_process
    THEN << get_permeance(mem, call.conditions.initial_feed_temperature, 1),
            get_permeance(mem, call.conditions.initial_feed_temperature, 2) >>
    ELSE lists.permeances[t + 1]

\* the permeances the step hands to calculate_partial_fluxes: lines 349-350,
\* 486-495 and 504-505, 807-808, 1087-1088
StepPermeances(mem, call, lists, t) ==
    IF call.method = ideal_non_isothermal_process
    THEN IF IsFinite(lists.feed_temperature[t + 1])
         THEN << get_permeance(mem, Kelvin(lists.feed_temperature[t + 1]), 1),
                 get_permeance(mem, Kelvin(lists.feed_temperature[t + 1]), 2) >>
         ELSE << PermeanceOf(NaN), PermeanceOf(NaN) >>
    ELSE lists.permeances[t + 1]

\* the arguments of the step's calculate_partial_fluxes call: lines 342-352,
\* 497-507, 800-810, 1080-1090
StepArguments(mem, call, lists, t) ==
    [feed_temperature |-> Kelvin(StepTemperature(call, lists, t)),
     composition |-> lists.feed_composition[t + 1],
     precision |-> call.precision,
     permeate_temperature |-> call.conditions.permeate_temperature,
     permeate_pressure |-> call.conditions.permeate_pressure,
     first_component_permeance |-> Some(StepPermeances(mem, call, lists, t)[1]),
     second_component_permeance |-> Some(StepPermeances(mem, call, lists, t)[2])]

\* a pass of the loop up to its calculate_partial_fluxes call.  A feed
\* temperature that is not a finite number is outside the domain of the lookups
\* made with it.
StepCall ==
    /\ ppc = "step"
    /\ step < Len(Val(trajectory).time)
    /\ LET call == Val(process)
           lists == Val(trajectory)
       IN  IF /\ ~IsFinite(StepTemperature(call, lists, step))
              /\ build.failure = "raise"
           THEN /\ ppc' = "raised"
                /\ error' = DomainError
                /\ UNCHANGED <<args, op, pc, first_component_permeance,
                               second_component_permeance, permeate_composition, d,
                               iterations, estimates, permeance_lookups,
                               pressure_evaluations, loop_failure, result, trajectory,
                               calls>>
           ELSE \E arguments \in {StepArguments(membrane, call, lists, step)} :
                /\ ppc' = "solving"
                /\ args' = arguments
                /\ calls' = Append(calls, arguments)
                /\ trajectory' =
                       IF call.method = ideal_non_isothermal_process
                       THEN Some([lists EXCEPT !.permeances =
                                      Append(@, StepPermeances(membrane, call, lists, step))])
                       ELSE trajectory
                /\ op' = "calculate_partial_fluxes"
                /\ pc' = "permeances"
                /\ first_component_permeance' = arguments.first_component_permeance
                /\ second_component_permeance' = arguments.second_component_permeance
                /\ permeate_composition' = Unset
                /\ d' = Unset
                /\ iterations' = 0
                /\ estimates' = {}
                /\ permeance_lookups' = 0
                /\ pressure_evaluations' = 0
                /\ loop_failure' = FALSE
                /\ result' = None
                /\ error' = NoError
    /\ UNCHANGED <<membrane, mixture, build, inputs, returned, process, step,
                   permeance_fits, model>>

\* the loop body after the calculate_partial_fluxes call returned fluxes:
\* lines 354-388, 509-576, 812-872, 1092-1196.  raised: a Python float was
\* divided by zero; lists: the lists after the pass.
step_result(mem, mix, call, fits, lists, t, fluxes, numpy) ==
    LET conditions == call.conditions
        temperature == StepTemperature(call, lists, t)
        at(pair) == IF IsFinite(temperature) THEN pair ELSE <<NaN, NaN>>
        composition == lists.feed_composition[t + 1]
        mass == lists.feed_mass[t + 1]
        permeate == step_permeate_composition(fluxes, numpy)
        d_mass_1 == d_mass(fluxes[1], conditions, call.delta_hours)
        d_mass_2 == d_mass(fluxes[2], conditions, call.delta_hours)
        evaporation == feed_evaporation_heat(
                           at(evaporation_heat(mix, call.method, Kelvin(temperature))),
                           d_mass_1, d_mass_2)
        condensation ==
            IF conditions.permeate_temperature = None THEN None
            ELSE Some(permeate_condensation_heat(
                          condensation_heat(mix, call.method,
                                            Val(conditions.permeate_temperature)),
                          at(cooling_heat(mix, call.method, Kelvin(temperature),
                                          Val(conditions.permeate_temperature))),
                          d_mass_1, d_mass_2, temperature,
                          Val(conditions.permeate_temperature)))
        new_mass == next_feed_mass(mass, d_mass_1, d_mass_2)
        new_composition == next_feed_composition(composition, mass, new_mass,
                                                 d_mass_1, numpy)
        heat_capacity == IF IsFinite(temperature)
                         THEN feed_heat_capacity(mix, composition, Kelvin(temperature))
                         ELSE NaN
        cooling == self_cooling(evaporation, heat_capacity, mass, numpy)
        new_temperature ==
            IF conditions.temperature_program = None
            THEN FSub(temperature, cooling)
            ELSE Fin(program(Val(conditions.temperature_program),
                             lists.time[t + 1] + call.delta_hours))
        new_permeances ==
            IF Isothermal(call.method)
            THEN << next_permeance_isothermal(fits[1], lists.permeances[t + 1][1],
                        composition, new_composition, conditions.initial_feed_temperature),
                    next_permeance_isothermal(fits[2], lists.permeances[t + 1][2],
                        composition, new_composition, conditions.initial_feed_temperature) >>
            ELSE << next_permeance_non_isothermal(fits[1], composition, new_composition,
                                                  temperature, new_temperature),
                    next_permeance_non_isothermal(fits[2], composition, new_composition,
                                                  temperature, new_temperature) >>
    IN  [raised |-> \/ permeate = ZeroDivisionError
                    \/ new_composition = ZeroDivisionError
                    \/ /\ ~Isothermal(call.method)
                       /\ conditions.temperature_program = None
                       /\ cooling = ZeroDivisionError,
         lists |-> [lists EXCEPT
             !.partial_fluxes = Append(@, fluxes),
             !.permeate_composition = Append(@, permeate),
             !.feed_evaporation_heat = Append(@, evaporation),
             !.permeate_condensation_heat = Append(@, condensation),
             !.feed_mass = Append(@, new_mass),
             !.feed_composition = Append(@, new_composition),
             !.feed_temperature =
                 IF Isothermal(call.method) THEN @ ELSE Append(@, new_temperature),
             !.permeances =
                 IF Ideal(call.method) THEN @ ELSE Append(@, new_permeances)]]

\* calculate_partial_fluxes returned: the rest of the pass
StepAdvance ==
    /\ ppc = "solving"
    /\ pc = "returned"
    /\ \E pass \in {step_result(membrane, mixture, Val(process),
                                IF permeance_fits = None THEN None ELSE Val(permeance_fits),
                                Val(trajectory), step, result, build.numpy)} :
           IF pass.raised
           THEN /\ ppc' = "raised"
                /\ error' = ZeroDivision
                /\ UNCHANGED <<trajectory, step>>
           ELSE /\ ppc' = "step"
                /\ trajectory' = Some(pass.lists)
                /\ step' = step + 1
                /\ UNCHANGED error
    /\ pc' = "idle"
    /\ UNCHANGED <<membrane, mixture, build, inputs, args, op,
                   first_component_permeance, second_component_permeance,
                   permeate_composition, d, iterations, estimates, permeance_lookups,
                   pressure_evaluations, loop_failure, result, returned, process,
                   permeance_fits, calls, model>>

\* calculate_partial_fluxes raised: the process method does not catch it
StepRaise ==
    /\ ppc = "solving"
    /\ pc = "raised"
    /\ ppc' = "raised"
    /\ pc' = "idle"
    /\ UNCHANGED <<membrane, mixture, build, inputs, args, op,
                   first_component_permeance, second_component_permeance,
                   permeate_composition, d, iterations, estimates, permeance_lookups,
                   pressure_evaluations, loop_failure, result, error, returned, process,
                   step, trajectory, permeance_fits, calls, model>>

\* as ReturnProcess, but the loop is also left once the feed mass is not above
\* zero
ReturnProcess_early ==
    /\ ppc = "step"
    /\ \/ step = Len(Val(trajectory).time)
       \/ ~FGt(Val(trajectory).feed_mass[step + 1], Fin(0))
    /\ model' = Some(ProcessModel(mixture, membrane, Val(process), Val(trajectory)))
    /\ ppc' = "returned"
    /\ UNCHANGED <<membrane, mixture, build, inputs, process, step, trajectory,
                   permeance_fits, calls>>
    /\ UNCHANGED solver_vars

\* the loop is over: the method returns its ProcessModel
ReturnProcess ==
    /\ ppc = "step"
    /\ step = Len(Val(trajectory).time)
    /\ model' = Some(ProcessModel(mixture, membrane, Val(process), Val(trajectory)))
    /\ ppc' = "returned"
    /\ UNCHANGED <<membrane, mixture, build, inputs, process, step, trajectory,
                   permeance_fits, calls>>
    /\ UNCHANGED solver_vars

\* the caller takes the ProcessModel, the value or the exception
LeaveProcess ==
    /\ \/ ppc \in {"returned", "raised"}
       \/ ppc = "idle" /\ pc \in {"returned", "raised"}
    /\ args' = Arguments(inputs, <<None, None>>)
    /\ op' = "none"
    /\ pc' = "idle"
    /\ first_component_permeance' = None
    /\ second_component_permeance' = None
    /\ permeate_composition' = Unset
    /\ d' = Unset
    /\ iterations' = 0
    /\ estimates' = {}
    /\ permeance_lookups' = 0
    /\ pressure_evaluations' = 0
    /\ loop_failure' = FALSE
    /\ result' = None
    /\ error' = NoError
    /\ process' = None
    /\ ppc' = "idle"
    /\ step' = 0
    /\ trajectory' = None
    /\ permeance_fits' = None
    /\ calls' = <<>>
    /\ model' = None
    /\ UNCHANGED <<membrane, mixture, build, inputs, returned>>

\* the steps of the calculate_partial_fluxes call a pass makes
Solve ==
    /\ ppc = "solving"
    /\ \/ Permeances
       \/ Seed
       \/ Iterate
       \/ ReturnFluxes

\* a caller uses the Flux Solver on its own while no process method runs
Standalone ==
    /\ ppc = "idle"
    /\ \/ Call_calculate_partial_fluxes
       \/ Call_calculate_permeate_composition
       \/ Permeances
       \/ Seed
       \/ Iterate
       \/ ReturnFluxes
       \/ ReturnComposition

ProcessNext ==
    \/ Call_ideal_isothermal_process
    \/ Call_ideal_non_isothermal_process
    \/ Call_non_ideal_isothermal_process
    \/ Call_non_ideal_non_isothermal_process
    \/ StepCall
    \/ Solve
    \/ Standalone
    \/ StepAdvance
    \/ StepRaise
    \/ ReturnProcess
    \/ LeaveProcess

ProcessSpec == ProcessInit /\ [][ProcessNext]_vars

-----------------------------------------------------------------------------
(* Properties of the Flux Solver *)

Finished == pc \in {"returned", "raised"}
FluxesReturned == pc = "returned" /\ op = "calculate_partial_fluxes"
BothSupplied(call) ==
    call.permeate_temperature # None /\ call.permeate_pressure # None
ZeroPermeatePressure(call) ==
    \/ PermeateVacuum(call)
    \/ (PermeateByPressure(call) /\ Val(call.permeate_pressure) = 0)
FeedPressures ==
    get_nrtl_partial_pressures(args.feed_temperature, mixture, args.composition,
                               build.failure).p

\* C1: a call given both permeate_temperature and permeate_pressure is rejected
\* with the configuration error before any permeance lookup and before any
\* equilibrium-pressure evaluation.
C1_RejectedBeforeAnyComputation ==
    (op # "none" /\ BothSupplied(args) /\ Finished)
        => /\ pc = "raised"
           /\ error = ConfigurationError
           /\ permeance_lookups = 0
           /\ pressure_evaluations = 0

\* C2: every call makes a bounded number of passes through the loop.  A pass
\* is a function of the estimate alone, so a loop that is about to make a pass
\* from an estimate it has already left repeats itself for ever: in a call with
\* a bounded number of passes that never happens.
C2_BoundedIterations ==
    ~(pc = "loop" /\ LoopCondition(d, args.precision)
                  /\ permeate_composition \in estimates)

\* C3: when an equilibrium-pressure evaluation fails inside the loop, the call
\* ends with "Partial fluxes are not defined in the stated conditions range":
\* not with the provider's own error, and not with a returned value.
C3_LoopFailureReported ==
    (loop_failure /\ pc \in {"returned", "raised", "composition"})
        => (pc = "raised" /\ error = UndefinedFluxesError)

\* C4: calculate_partial_fluxes returns only after a change of the permeate
\* estimate below precision was measured, and returns the fluxes evaluated at
\* the last estimate.
C4_ReturnsOnlyWhenConverged ==
    FluxesReturned =>
        /\ iterations >= 1
        /\ IsFinite(d)
        /\ ~FGe(d, args.precision)
        /\ result = get_partial_fluxes_from_permeate_composition(
                        mixture, Val(first_component_permeance),
                        Val(second_component_permeance), permeate_composition,
                        args, build.failure).fluxes

\* C5: with neither permeate_temperature nor permeate_pressure, the fluxes
\* returned are permeance_i times the feed-side partial pressure of component i.
C5_VacuumFluxes ==
    (FluxesReturned /\ PermeateVacuum(args)) =>
        result = << FMul(Fin(Val(first_component_permeance).value), FeedPressures[1]),
                    FMul(Fin(Val(second_component_permeance).value), FeedPressures[2]) >>

C5_Witness ==
    /\ FluxesReturned
    /\ PermeateVacuum(args)
    /\ IsFinite(result[1]) /\ result[1].v > 0
    /\ IsFinite(result[2]) /\ result[2].v > 0

\* C6: with zero permeate pressure (given as 0 or not given at all) and
\* precision = 5e-5 the loop makes at most 50 passes.
C6_ZeroPressureWithin50 ==
    (op # "none" /\ ZeroPermeatePressure(args) /\ args.precision = DefaultPrecision)
        => iterations <= 50

C6_Witness ==
    /\ FluxesReturned
    /\ PermeateByPressure(args)
    /\ ZeroPermeatePressure(args)
    /\ args.precision = DefaultPrecision
    /\ iterations = 1

\* C7: the fraction calculate_permeate_composition returns is J1 / (J1 + J2) of
\* the fluxes (J1, J2) calculate_partial_fluxes returns for the same inputs.
C7_CompositionOfFluxes ==
    (pc = "returned" /\ op = "calculate_permeate_composition" /\ returned # None)
        => result = << FDiv(returned[1], FAdd(returned[1], returned[2]), TRUE) >>

C7_Witness ==
    /\ pc = "returned"
    /\ op = "calculate_permeate_composition"
    /\ returned # None
    /\ PermeateByPressure(args)
    /\ iterations > 1
    /\ IsFinite(result[1]) /\ result[1].v > 0 /\ result[1].v < FS

\* C8: when no permeances are supplied, the seed and every pass of the loop
\* work with the Membrane's permeances at the feed temperature, converted to
\* kg/m2/h/kPa.
C8_PermeancesFromMembrane ==
    ( /\ pc \in {"seed", "loop", "returned", "composition"}
      /\ args.first_component_permeance = None
      /\ args.second_component_permeance = None )
        => /\ permeance_lookups = 2
           /\ Val(first_component_permeance).units = kg_m2_h_kPa
           /\ Val(second_component_permeance).units = kg_m2_h_kPa
           /\ Val(first_component_permeance).value =
                  IF membrane.units = kg_m2_h_kPa
                  THEN membrane.permeance[1][args.feed_temperature]
                  ELSE membrane.permeance[1][args.feed_temperature]
                           * mixture.first_component.molecular_weight
           /\ Val(second_component_permeance).value =
                  IF membrane.units = kg_m2_h_kPa
                  THEN membrane.permeance[2][args.feed_temperature]
                  ELSE membrane.permeance[2][args.feed_temperature]
                           * mixture.second_component.molecular_weight

C8_Witness ==
    /\ pc = "loop"
    /\ iterations >= 2
    /\ args.first_component_permeance = None
    /\ args.second_component_permeance = None
    /\ membrane.units = kmol_m2_h_kPa

\* C9: for every converged call, J1 / (J1 + J2) of the returned fluxes lies in
\* [0, 1].
C9_FractionInUnitInterval ==
    (FluxesReturned /\ IsFinite(d) /\ ~FGe(d, args.precision))
        => LET fraction == PermeateFraction(result)
           IN  IsFinite(fraction) /\ fraction.v >= 0 /\ fraction.v <= FS

\* C10: for a feed of one pure component, with a provider that gives zero
\* partial pressure for the absent component, the returned flux of the absent
\* component is zero.
C10_AbsentComponentZeroFlux ==
    (FluxesReturned /\ build.failure = "raise") =>
        /\ (args.composition = Fin(0) => result[1] = Fin(0))
        /\ (args.composition = Fin(FS) => result[2] = Fin(0))

-----------------------------------------------------------------------------
(* Properties of the process methods *)

\* the lists of the process method being executed
Lists == Val(trajectory)

\* the passes of the loop whose results are in the lists
Recorded == IF trajectory = None THEN {} ELSE DOMAIN Lists.partial_fluxes

\* the feed mass, the feed composition and the fluxes pass t works with are
\* finite numbers
StepInputsFinite(t) ==
    /\ IsFinite(Lists.feed_mass[t])
    /\ IsFinite(Lists.feed_composition[t])
    /\ IsFinite(Lists.partial_fluxes[t][1])
    /\ IsFinite(Lists.partial_fluxes[t][2])

\* the process method returned the model of a run of three steps
ReturnedThreeSteps(method) ==
    /\ ppc = "returned"
    /\ Val(process).method = method
    /\ Val(process).number_of_steps = 3

\* C11: in every pass t of each of the four process methods,
\* feed_mass[t] - feed_mass[t+1] equals (J1 + J2) * membrane_area * delta_hours
\* for the partial fluxes (J1, J2) recorded for the pass.
C11_MassConservation ==
    \A t \in Recorded :
        StepInputsFinite(t) =>
            FSub(Lists.feed_mass[t], Lists.feed_mass[t + 1])
                = FMul(FMul(FAdd(Lists.partial_fluxes[t][1], Lists.partial_fluxes[t][2]),
                            Fin(Val(process).conditions.membrane_area)),
                       Fin(Val(process).delta_hours))

\* a returned run of three steps, each of which took mass of both components
\* out of a feed of positive mass
C11_Witness ==
    /\ ReturnedThreeSteps(non_ideal_non_isothermal_process)
    /\ \A t \in Recorded :
           /\ StepInputsFinite(t)
           /\ Lists.feed_mass[t + 1].k = "fin"
           /\ Lists.feed_mass[t + 1].v > 0
           /\ Lists.partial_fluxes[t][1].v > 0
           /\ Lists.partial_fluxes[t][2].v > 0

Abs(n) == IF n < 0 THEN -n ELSE n

\* the mass of the first component in the feed before pass t, reconstructed
\* from the lists
FirstComponentMass(t) == FMulFrac(Lists.feed_mass[t], Lists.feed_composition[t])

\* the new feed mass of pass t is a number of the model's range, and so is the
\* new feed composition unless it is a quotient by zero
WithinRange(t) ==
    /\ IsFinite(Lists.feed_mass[t + 1])
    /\ IsFinite(Lists.feed_composition[t + 1]) \/ Lists.feed_mass[t + 1].v = 0

\* C12: in every pass t of each process method,
\* feed_composition[t] * feed_mass[t] - feed_composition[t+1] * feed_mass[t+1]
\* equals d_mass_1 = J1 * membrane_area * delta_hours, up to the rounding of
\* the new composition.
C12_CompositionConservation ==
    \A t \in Recorded :
        StepInputsFinite(t) /\ WithinRange(t) =>
            /\ IsFinite(FirstComponentMass(t + 1))
            /\ Abs(FirstComponentMass(t).v - FirstComponentMass(t + 1).v
                   - d_mass(Lists.partial_fluxes[t][1], Val(process).conditions,
                            Val(process).delta_hours).v)
                   <= Abs(Lists.feed_mass[t + 1].v) \div (2 * FS) + 1

\* the ProcessModel handed to the caller
Returned == Val(model)

\* C13: in the ProcessModel every process method returns, each time-indexed
\* sequence has length number_of_steps, and the sequences that start with the
\* initial state and get one entry per pass have length number_of_steps + 1.
C13_SequenceLengths ==
    model # None =>
        LET n == Val(process).number_of_steps
            method == Val(process).method
        IN  /\ Len(Returned.time) = n
            /\ Len(Returned.partial_fluxes) = n
            /\ Len(Returned.permeate_composition) = n
            /\ Len(Returned.permeate_temperature) = n
            /\ Len(Returned.permeate_pressure) = n
            /\ Len(Returned.feed_evaporation_heat) = n
            /\ Len(Returned.permeate_condensation_heat) = n
            /\ Len(Returned.feed_composition) = n + 1
            /\ Len(Returned.feed_mass) = n + 1
            /\ Len(Returned.feed_temperature) = IF Isothermal(method) THEN n ELSE n + 1
            /\ Len(Returned.permeances) = IF Ideal(method) THEN n ELSE n + 1

\* a model of three steps is returned by a method that keeps the feed
\* temperature of every state and the permeances of every pass
C13_Witness ==
    /\ ReturnedThreeSteps(ideal_non_isothermal_process)
    /\ model # None
    /\ Len(Returned.feed_temperature) = 4
    /\ Len(Returned.permeances) = 3

\* C14: an ideal isothermal process run over N steps returns a feed composition
\* list of length N + 1 and a feed mass that is strictly smaller after every
\* pass.
C14_IdealIsothermalMassDecreases ==
    model # None /\ Val(process).method = ideal_isothermal_process =>
        /\ Len(Returned.feed_composition) = Val(process).number_of_steps + 1
        /\ \A t \in 1..Val(process).number_of_steps :
               FGt(Returned.feed_mass[t], Returned.feed_mass[t + 1])

\* C15: in ideal_isothermal_process and non_ideal_isothermal_process every
\* calculate_partial_fluxes call is made at the initial feed temperature, and
\* every entry of the returned feed temperature list equals it.
C15_IsothermalTemperature ==
    process # None /\ Isothermal(Val(process).method) =>
        /\ \A i \in DOMAIN calls :
               calls[i].feed_temperature = Val(process).conditions.initial_feed_temperature
        /\ model # None =>
               \A i \in DOMAIN Returned.feed_temperature :
                   Returned.feed_temperature[i]
                       = Fin(Val(process).conditions.initial_feed_temperature)

\* a non-ideal isothermal run of three steps with a stated permeate temperature
\* is returned after three calls, the feed composition having changed
C15_Witness ==
    /\ ReturnedThreeSteps(non_ideal_isothermal_process)
    /\ model # None
    /\ Val(process).conditions.permeate_temperature # None
    /\ Len(calls) = 3
    /\ Len(Returned.feed_temperature) = 3
    /\ calls[3].composition # calls[1].composition

\* a feed mass above zero
ValidMass(mass) == FGt(mass, Fin(0))
\* a feed composition in [0, 1]
ValidComposition(composition) ==
    IsFinite(composition) /\ composition.v >= 0 /\ composition.v <= FS

\* pass t left the feed with a mass of zero or less, or with a composition
\* outside [0, 1]
InvalidStep(t) ==
    \/ ~ValidMass(Lists.feed_mass[t + 1])
    \/ ~ValidComposition(Lists.feed_composition[t + 1])

\* C16: a pass that makes the feed mass zero or negative, or moves the feed
\* composition outside [0, 1], ends the run with an error: the method does not
\* go on from the invalid state and returns no ProcessModel holding it.
C16_InvalidStepRejected ==
    \A t \in Recorded :
        StepInputsFinite(t) /\ InvalidStep(t) =>
            ppc = "raised" /\ model = None

BestFit(component, m, include_zero) ==
    find_best_fit(from_diffusion_curves(Val(process).diffusion_curves, component - 1),
                  IF component = 1 THEN Val(process).n_first ELSE Val(process).n_second,
                  m, include_zero, component - 1)

\* C18: with exactly one diffusion curve both non-ideal methods fit each
\* component with temperature order m = 0 and then set
\* a0 := a0 + b0 / T_ref + E_a / (R * T_ref) (b0 still the fitted one) and
\* b0 := E_a / R, T_ref being the curve's feed temperature; with two or more
\* curves they use the fit with the caller's m and include_zero, uncorrected.
C18_SingleCurveCorrection ==
    permeance_fits # None =>
        \A component \in {1, 2} :
            LET curves == Val(process).diffusion_curves
                fitted == Val(permeance_fits)[component]
                single == BestFit(component, Some(0), FALSE)
                energy == calculate_activation_energy(membrane, component)
                reference == curves[1].feed_temperature
            IN  IF Len(curves) = 1
                THEN /\ fitted.m = Some(0)
                     /\ fitted.include_zero = FALSE
                     /\ fitted.a[1] = single.a[1] + Round(single.b[1], reference)
                                          + Round(energy, R * reference)
                     /\ fitted.a[2] = single.a[2]
                     /\ fitted.b[1] = Round(energy, R)
                ELSE fitted = BestFit(component,
                                      IF component = 1 THEN Val(process).m_first
                                      ELSE Val(process).m_second,
                                      Val(process).include_zero)

\* a non-ideal run on one diffusion curve, called with temperature order 1,
\* works with corrected fits whose temperature coefficient is E_a / R
C18_Witness ==
    /\ process # None
    /\ permeance_fits # None
    /\ Val(process).method = non_ideal_non_isothermal_process
    /\ Len(Val(process).diffusion_curves) = 1
    /\ Val(process).m_first = Some(1)
    /\ Val(permeance_fits)[1].b[1] > 0
    /\ Val(permeance_fits)[1].a[1] > BestFit(1, Some(0), FALSE).a[1]
    /\ ppc = "solving"

\* C19: no step of a Flux Solver call or of a process method changes the
\* Membrane or the Mixture, whether the call returns or raises.
C19_MembraneAndMixtureUnchanged ==
    [][membrane' = membrane /\ mixture' = mixture]_vars

\* a process method raised in its third pass, after the Flux Solver worked
\* with the Membrane's permeances and the Mixture in every pass
C19_Witness ==
    /\ ppc = "raised"
    /\ step = 2
    /\ Len(calls) = 3
    /\ Val(process).method = ideal_non_isothermal_process
    /\ membrane \in Membranes
    /\ mixture \in Mixtures

\* C20: in all four process methods the evaporation heat recorded for a pass
\* equals d_mass_1 * h_vap1(T_feed) / M1 + d_mass_2 * h_vap2(T_feed) / M2 (times
\* 1000), each vaporisation heat divided by the molecular weight of its own
\* component.
C20_EvaporationHeatOwnWeight ==
    \A t \in Recorded :
        StepInputsFinite(t) /\ IsFinite(StepTemperature(Val(process), Lists, t - 1)) =>
            Lists.feed_evaporation_heat[t]
                = feed_evaporation_heat(
                      evaporation_heat_own_weight(
                          mixture, Val(process).method,
                          Kelvin(StepTemperature(Val(process), Lists, t - 1))),
                      d_mass(Lists.partial_fluxes[t][1], Val(process).conditions,
                             Val(process).delta_hours),
                      d_mass(Lists.partial_fluxes[t][2], Val(process).conditions,
                             Val(process).delta_hours))

\* the masses pass t took out of the feed
StepMass(t, component) ==
    d_mass(Lists.partial_fluxes[t][component], Val(process).conditions,
           Val(process).delta_hours)

\* the feed temperature pass t worked at
TemperatureOf(t) == StepTemperature(Val(process), Lists, t - 1)

\* C21: in all four process methods, with a permeate temperature stated the
\* condensation heat recorded for a pass is
\* d_mass_1 * h1(T_perm) / M1 + d_mass_2 * h2(T_perm) / M2 (times 1000) plus
\* (c1 * d_mass_1 + c2 * d_mass_2) * (T_feed - T_perm), with the vaporisation
\* heat and the molecular weight of each component itself; with no permeate
\* temperature the recorded value is None.
C21_CondensationHeat ==
    \A t \in Recorded :
        StepInputsFinite(t) /\ IsFinite(TemperatureOf(t)) =>
            LET permeate == Val(process).conditions.permeate_temperature
            IN  IF permeate = None
                THEN Lists.permeate_condensation_heat[t] = None
                ELSE Lists.permeate_condensation_heat[t]
                         = Some(permeate_condensation_heat(
                                    condensation_heat_own_component(
                                        mixture, Val(process).method, Val(permeate)),
                                    cooling_heat(mixture, Val(process).method,
                                                 Kelvin(TemperatureOf(t)), Val(permeate)),
                                    StepMass(t, 1), StepMass(t, 2),
                                    TemperatureOf(t), Val(permeate)))

\* C22: in the two non-isothermal methods, without a temperature program
\* feed_temperature[t+1] = feed_temperature[t]
\*     - feed_evaporation_heat[t] / (feed_heat_capacity[t] * feed_mass[t]),
\* with the mass the feed had before the pass and the heat capacity weighted by
\* the feed composition and taken at feed_temperature[t]; with a temperature
\* program feed_temperature[t+1] = program(time[t] + delta_hours).
C22_FeedTemperatureUpdate ==
    \A t \in Recorded :
        /\ ~Isothermal(Val(process).method)
        /\ StepInputsFinite(t)
        /\ IsFinite(Lists.feed_temperature[t])
        => LET conditions == Val(process).conditions
               capacity == feed_heat_capacity(mixture, Lists.feed_composition[t],
                                              Kelvin(Lists.feed_temperature[t]))
           IN  IF conditions.temperature_program = None
               THEN Lists.feed_temperature[t + 1]
                        = FSub(Lists.feed_temperature[t],
                               FQuot(Lists.feed_evaporation_heat[t],
                                     FMul(capacity, Lists.feed_mass[t]), build.numpy))
               ELSE Lists.feed_temperature[t + 1]
                        = Fin(program(Val(conditions.temperature_program),
                                      Lists.time[t] + Val(process).delta_hours))

\* a returned non-isothermal run of three steps without temperature program in
\* which every pass cooled the feed by a finite, nonzero amount
C22_Witness ==
    /\ ReturnedThreeSteps(ideal_non_isothermal_process)
    /\ Val(process).conditions.temperature_program = None
    /\ \A t \in Recorded :
           /\ StepInputsFinite(t)
           /\ IsFinite(Lists.feed_temperature[t])
           /\ IsFinite(Lists.feed_temperature[t + 1])
           /\ Lists.feed_temperature[t + 1].v < Lists.feed_temperature[t].v
           /\ Lists.feed_mass[t].v > 0

\* the fitted surface at a state of the feed plus its derivative in the
\* composition times the increment of the composition
extrapolated_from_surface(fit, composition, new_composition, temperature) ==
    PermeanceOf(
        FAdd(pervaporation_function(fit, First(composition), temperature),
             FMulFrac(derivative_composition(fit, First(composition), temperature),
                      FSub(First(new_composition), First(composition)))))

\* C23: in both non-ideal methods the permeance pair for pass t+1 is the fitted
\* surface at the state of pass t plus its partial derivatives at that state
\* times the increments of the pass: the increment of the composition in
\* non_ideal_isothermal_process, the increments of composition and temperature
\* in non_ideal_non_isothermal_process.
C23_PermeanceExtrapolation ==
    \A t \in Recorded :
        /\ ~Ideal(Val(process).method)
        /\ StepInputsFinite(t)
        /\ IsFinite(TemperatureOf(t))
        => \A i \in {1, 2} :
               Lists.permeances[t + 1][i]
                   = IF Isothermal(Val(process).method)
                     THEN extrapolated_from_surface(
                              Val(permeance_fits)[i], Lists.feed_composition[t],
                              Lists.feed_composition[t + 1],
                              Val(process).conditions.initial_feed_temperature)
                     ELSE next_permeance_non_isothermal(
                              Val(permeance_fits)[i], Lists.feed_composition[t],
                              Lists.feed_composition[t + 1], Lists.feed_temperature[t],
                              Lists.feed_temperature[t + 1])

\* the pair of permeances the Membrane gives at a temperature
MembranePair(temperature) ==
    << get_permeance(membrane, temperature, 1), get_permeance(membrane, temperature, 2) >>

\* the pair of permeances handed to the t-th calculate_partial_fluxes call of
\* the process method being executed
PairUsed(t) ==
    << Val(calls[t].first_component_permeance), Val(calls[t].second_component_permeance) >>

\* C24: ideal_isothermal_process uses in every pass, and records for every
\* step, the pair the Membrane gives at the initial feed temperature;
\* ideal_non_isothermal_process uses in pass t, and records for it, the pair
\* the Membrane gives at feed_temperature[t].
C24_IdealPermeances ==
    process # None /\ trajectory # None =>
        /\ Val(process).method = ideal_isothermal_process =>
               /\ \A t \in DOMAIN calls :
                      PairUsed(t) = MembranePair(Val(process).conditions.initial_feed_temperature)
               /\ \A t \in DOMAIN Lists.permeances :
                      Lists.permeances[t]
                          = MembranePair(Val(process).conditions.initial_feed_temperature)
               /\ Len(Lists.permeances) = Val(process).number_of_steps
        /\ Val(process).method = ideal_non_isothermal_process =>
               /\ Len(Lists.permeances) = Len(calls)
               /\ \A t \in DOMAIN calls :
                      IsFinite(Lists.feed_temperature[t]) =>
                          /\ PairUsed(t) = MembranePair(Kelvin(Lists.feed_temperature[t]))
                          /\ Lists.permeances[t] = PairUsed(t)

\* a returned run of ideal_non_isothermal_process of three steps whose feed
\* temperature moved far enough for the Membrane to give another pair
C24_Witness ==
    /\ ReturnedThreeSteps(ideal_non_isothermal_process)
    /\ \A t \in Recorded : StepInputsFinite(t) /\ IsFinite(Lists.feed_temperature[t])
    /\ Lists.permeances[1] # Lists.permeances[3]
    /\ Len(calls) = 3

\* the while loop of calculate_partial_fluxes and its return, lines 123-156, as
\* a function of the estimate it starts from: passes are made while the change
\* is not below the precision, at most 2 * MaxIterations of them
RECURSIVE solved_fluxes(_, _, _, _, _, _, _, _)
solved_fluxes(mix, first_permeance, second_permeance, permeate, change, call, b, passes) ==
    LET pass == get_partial_fluxes_from_permeate_composition(
                    mix, first_permeance, second_permeance, permeate, call, b.failure)
        permeate_composition_new == get_permeate_composition_from_fluxes(pass.fluxes, b.numpy)
    IN  IF pass.raised # NoError THEN [raised |-> pass.raised, fluxes |-> None]
        ELSE IF ~LoopCondition(change, call.precision)
        THEN [raised |-> NoError, fluxes |-> pass.fluxes]
        ELSE IF permeate_composition_new = ZeroDivisionError
        THEN [raised |-> ZeroDivision, fluxes |-> None]
        ELSE IF passes = 0 THEN [raised |-> "no return", fluxes |-> None]
        ELSE solved_fluxes(mix, first_permeance, second_permeance,
                           permeate_composition_new,
                           Change(permeate_composition_new, permeate), call, b,
                           passes - 1)

\* calculate_partial_fluxes as a function of its arguments, lines 104-156
calculate_partial_fluxes(mem, mix, call, b) ==
    LET first_permeance == WorkingPermeance(mem, mix, call, 1)
        second_permeance == WorkingPermeance(mem, mix, call, 2)
        feed == get_nrtl_partial_pressures(call.feed_temperature, mix, call.composition,
                                           b.failure)
    IN  IF feed.raised THEN [raised |-> ProviderError, fluxes |-> None]
        ELSE solved_fluxes(mix, first_permeance, second_permeance,
                           get_permeate_composition_from_fluxes(
                               initial_fluxes(first_permeance, second_permeance, feed.p),
                               TRUE),
                           One, call, b, 2 * MaxIterations)

\* the standalone call the first pass of a process method is compared with:
\* initial feed temperature, initial feed composition, the permeate setting of
\* the conditions, no permeances
StandaloneArguments(call) ==
    [feed_temperature |-> call.conditions.initial_feed_temperature,
     composition |-> to_weight(call.conditions.initial_feed_composition, mixture),
     precision |-> call.precision,
     permeate_temperature |-> call.conditions.permeate_temperature,
     permeate_pressure |-> call.conditions.permeate_pressure,
     first_component_permeance |-> None,
     second_component_permeance |-> None]

\* C25: the fluxes ideal_isothermal_process records for its first step are the
\* fluxes calculate_partial_fluxes returns for the initial feed temperature,
\* the initial feed composition and the same permeate setting with no
\* permeances supplied, in whatever units the Membrane keeps its permeances.
C25_FirstStepAsStandalone ==
    /\ process # None
    /\ Val(process).method = ideal_isothermal_process
    /\ 1 \in Recorded
    => LET standalone == calculate_partial_fluxes(membrane, mixture,
                                                  StandaloneArguments(Val(process)), build)
       IN  /\ standalone.raised = NoError
           /\ standalone.fluxes = Lists.partial_fluxes[1]

\* the call is past lines 104-114
PermeancesChosen == pc \in {"seed", "loop", "composition", "returned", "raised"}

\* C26: a permeance the caller hands to calculate_partial_fluxes is the one the
\* call works with for that component; with exactly one of the two supplied,
\* only the missing one is taken from the Membrane.
C26_SuppliedPermeanceKept ==
    PermeancesChosen =>
        /\ args.first_component_permeance # None =>
               first_component_permeance = args.first_component_permeance
        /\ args.second_component_permeance # None =>
               second_component_permeance = args.second_component_permeance
        /\ args.first_component_permeance = None =>
               first_component_permeance
                   = Some(convert(get_permeance(membrane, args.feed_temperature, 1),
                                  kg_m2_h_kPa, mixture, 1))
        /\ args.second_component_permeance = None =>
               second_component_permeance
                   = Some(convert(get_permeance(membrane, args.feed_temperature, 2),
                                  kg_m2_h_kPa, mixture, 2))

\* calculate_partial_fluxes has returned the fluxes of the pass being executed
FluxesOfPass == ppc = "solving" /\ pc = "returned"

\* the rest of the pass being executed, for the lists given
RestOfPass(lists) ==
    step_result(membrane, mixture, Val(process),
                IF permeance_fits = None THEN None ELSE Val(permeance_fits),
                lists, step, result, build.numpy)

\* the lists of the pass being executed with a feed that is lighter by the
\* smallest amount of mass
LighterFeed == [Lists EXCEPT !.feed_mass[step + 1] = FSub(@, Fin(1))]

\* the pass being executed leaves a feed mass of exactly zero
LeavesZeroMass ==
    /\ FluxesOfPass
    /\ IsFinite(result[1]) /\ IsFinite(result[2])
    /\ IsFinite(Lists.feed_mass[step + 1]) /\ IsFinite(Lists.feed_composition[step + 1])
    /\ RestOfPass(Lists).lists.feed_mass[step + 2] = Fin(0)

\* C27: a pass that leaves a feed mass of zero ends as the same pass ends when
\* the mass it leaves is negative: whether the method raises or goes on does
\* not depend on which of the two it is.
C27_ZeroMassAsNegativeMass ==
    LeavesZeroMass =>
        /\ FGt(Fin(0), RestOfPass(LighterFeed).lists.feed_mass[step + 2])
        /\ RestOfPass(Lists).raised = RestOfPass(LighterFeed).raised

====
